---- MODULE Spec2Model ----
(***************************************************************************)
(* Tyni-Wispr: the recording / transcription state machine of             *)
(* tyni_wispr/main.py together with the audio callback of                  *)
(* tyni_wispr/audio.py and the overlay of tyni_wispr/ui.py.                *)
(*                                                                         *)
(* Threads of the program:                                                 *)
(*   - key handler threads: every key press runs _on_num_lock_press or     *)
(*     _on_escape_press, serialised by self.state_lock;                    *)
(*   - the audio stream thread running AudioRecorder._audio_callback;      *)
(*   - the overlay thread running RecordingOverlay._create_overlay;        *)
(*   - the main thread running TyniWispr.run.                              *)
(* Each statement of a handler that reads or writes shared state is one   *)
(* step, so that the other threads interleave between the statements.     *)
(***************************************************************************)
EXTENDS Integers, Sequences, FiniteSets, Bags, TLC

\* ------------------------------------------------------------- bounds
NumHandlers == 2   \* key handler threads alive at a time (pending or running)
MaxRows == 1       \* rows in the performance log before the keys go quiet
MaxChunks == 1     \* audio blocks the stream delivers into one buffer
MaxInput == 10     \* longest text handed to LLMEnhancer.enhance on its own
MaxReply == 35     \* most non-blank characters in a backend's reply
MaxPad == 1        \* most blanks before, and after, a backend's reply
MaxText == 3       \* longest transcription handed to the correction on its own
MaxEntries == 2    \* most entries of a corrections table
MaxSamples == 2    \* most samples of a block handed to the normalisation
MaxBuffer == 2     \* most blocks of a buffer handed to the normalisation

\* ------------------------------------------------ RecordingState (enum)
IDLE == "idle"
RECORDING == "recording"
TRANSCRIBING == "transcribing"
RecordingState == {IDLE, RECORDING, TRANSCRIBING}

\* ------------------------------------------------------------- texts
\* A text is the sequence of its characters. The texts an external engine
\* (speech model, LLM backend, corrections and grammar pass) may produce:
\* empty, blank, a word, a word with leading blank.
Texts == {<<>>, <<" ">>, <<"a">>, <<" ", "a">>}

RECURSIVE lstrip(_)
lstrip(s) == IF s # <<>> /\ Head(s) = " " THEN lstrip(Tail(s)) ELSE s

RECURSIVE rstrip(_)
rstrip(s) ==
  IF s # <<>> /\ s[Len(s)] = " " THEN rstrip(SubSeq(s, 1, Len(s) - 1)) ELSE s

\* str.strip()
strip(s) == rstrip(lstrip(s))

\* a word of n letters, n blanks, and a word with blanks around it
Word(n) == [i \in 1..n |-> "a"]
Blank(n) == [i \in 1..n |-> " "]
Padded(l, n, r) == Blank(l) \o Word(n) \o Blank(r)

\* str.upper() on one character
upper(c) == IF c = "a" THEN "A" ELSE IF c = "b" THEN "B" ELSE c

VARIABLES
  state,         \* TyniWispr.state
  state_lock,    \* TyniWispr.state_lock: TRUE while it is held
  recording,     \* AudioRecorder.recording (the armed flag)
  audio_buffer,  \* AudioRecorder.audio_buffer: the chunks, in insertion order,
                 \* each a record of
                 \*   samples: the int16 samples of the block
                 \*   session: (history) "stale" if the callback that
                 \*            appended it read the flag before the latest arm
  stream,        \* AudioRecorder.stream: "none" or "active"
  is_showing,    \* RecordingOverlay.is_showing
  current_mode,  \* RecordingOverlay.current_mode
  thread,        \* RecordingOverlay.thread: where the overlay thread is
  orphans,       \* the bag of overlay threads still running that self.thread
                 \* no longer refers to: where each of them is
  enhancer,      \* TyniWispr.enhancer: what load_enhancer_llm returned
  log_perf,      \* args.log_performance
  perf_log,      \* the lines of transcription_performance.csv: the header
                 \* or a row; <<>> while the file is absent
  handlers,      \* the bag of live key handler threads, each a record of
                 \*   pc:    the statement it is at
                 \*   kind:  the key it handles, "toggle" or "cancel"
                 \*   audio: local audio_mono of _process_transcription
                 \*   text:  local text of _process_transcription
                 \*   exc:   the exception propagating out of it
                 \*   late:  (history) its key was pressed while self.state
                 \*          was TRANSCRIBING
  cb_pc,         \* audio callback: "idle", or "append" after it read the flag
  cb_stale,      \* history: the running callback read the flag before the
                 \* latest arm, so its indata is audio of an earlier session
  main_pc,       \* the main thread in TyniWispr.run: "start", "wait", the
                 \* statements of cleanup, "exited" once the process is gone
  hooked,        \* the key handlers are registered with the keyboard hook
  calls          \* history: collaborator calls made since the lock was taken

vars == <<state, state_lock, recording, audio_buffer, stream, is_showing,
          current_mode, thread, orphans, enhancer, log_perf, perf_log,
          handlers, cb_pc, cb_stale, main_pc, hooked, calls>>

recorder_vars == <<recording, audio_buffer, stream>>
overlay_vars == <<is_showing, current_mode, thread, orphans>>
config_vars == <<enhancer, log_perf>>
callback_vars == <<cb_pc, cb_stale>>
main_vars == <<main_pc, hooked>>

\* a quotient num / den of two integers, kept exact
Ratio(n, d) == [num |-> n, den |-> d]

\* config.py: DEFAULT_SAMPLERATE
DEFAULT_SAMPLERATE == 16000

\* a block the stream delivers
Chunk(session, samples) == [session |-> session, samples |-> samples]

\* indata of a callback during a key cycle: one block of silence
indata == <<0>>

\* process_audio_buffer's (None, 0)
None == [is_none |-> TRUE, mono |-> <<>>, duration |-> Ratio(0, 1)]
NoText == <<>>

\* ------------------------------------------------- enhancer at startup
\* An LLMEnhancer instance: its availability flags. for_azure_openai sets
\* azure_client exactly when it sets azure_available.
LLMEnhancer == [azure_available : BOOLEAN, ollama_available : BOOLEAN]

\* what load_enhancer_llm returns: None, or an instance
NoEnhancer ==
  [is_none |-> TRUE, azure_available |-> FALSE, ollama_available |-> FALSE]

Loaded(e) ==
  [is_none |-> FALSE, azure_available |-> e.azure_available,
   ollama_available |-> e.ollama_available]

\* parse_arguments: the two enhancement flags. On the command line they
\* form a mutually exclusive group.
Namespaces == [llm_enhance_ollama : BOOLEAN, llm_enhance_azure_openai : BOOLEAN]

parse_arguments ==
  {args \in Namespaces :
     ~(args.llm_enhance_ollama /\ args.llm_enhance_azure_openai)}

\* the outcomes of GET {base_url}/api/tags in is_ollama_running: status 200
\* with the model listed, status 200 without it, another status, a body
\* that is no JSON object of named models, connection refused, timeout
Probes ==
  {"listed", "not_listed", "bad_status", "bad_body", "refused", "timeout"}

\* LLMEnhancer.for_ollama: every flag unset
for_ollama == [azure_available |-> FALSE, ollama_available |-> FALSE]

\* LLMEnhancer.for_azure_openai: azure_available iff AzureOpenAIClient(...)
\* did not raise
for_azure_openai(client_ok) ==
  [azure_available |-> client_ok, ollama_available |-> FALSE]

\* mutant: the probe reports the server available whatever it answered
is_ollama_running_AlwaysUp(e, probe) == [e EXCEPT !.ollama_available = TRUE]

\* LLMEnhancer.is_ollama_running: the instance after the call. It returns
\* self.ollama_available: True only for status 200 with the model listed;
\* every exception is caught.
is_ollama_running(e, probe) ==
  [e EXCEPT !.ollama_available = (probe = "listed")]

\* mutant: the hosted backend is tried first
load_enhancer_llm_AzureFirst(args, probe, client_ok) ==
  IF args.llm_enhance_azure_openai /\ for_azure_openai(client_ok).azure_available
    THEN Loaded(for_azure_openai(client_ok))
  ELSE IF args.llm_enhance_ollama
            /\ is_ollama_running(for_ollama, probe).ollama_available
    THEN Loaded(is_ollama_running(for_ollama, probe))
  ELSE NoEnhancer

\* mutant: the instance is handed over whatever the probe or the client
\* construction gave
load_enhancer_llm_Unchecked(args, probe, client_ok) ==
  IF args.llm_enhance_ollama
    THEN Loaded(is_ollama_running(for_ollama, probe))
  ELSE IF args.llm_enhance_azure_openai
    THEN Loaded(for_azure_openai(client_ok))
  ELSE NoEnhancer

\* load_enhancer_llm(args): Ollama if its flag is set and the probe
\* succeeds; else (`if not enhancer and args.llm_enhance_azure_openai`)
\* Azure if its flag is set and the client was built; else None
load_enhancer_llm(args, probe, client_ok) ==
  LET ollama == is_ollama_running(for_ollama, probe)
      first == IF args.llm_enhance_ollama /\ ollama.ollama_available
                 THEN Loaded(ollama)
                 ELSE NoEnhancer
      azure == for_azure_openai(client_ok)
  IN IF first.is_none /\ args.llm_enhance_azure_openai
       THEN IF azure.azure_available THEN Loaded(azure) ELSE NoEnhancer
       ELSE first

\* faster_whisper.WhisperModel(model_size, device=device): the model is
\* loaded, or the constructor raises
WhisperModel(device, gpu_load_ok, cpu_load_ok) ==
  IF device = "cuda" THEN gpu_load_ok ELSE cpu_load_ok

\* mutant: a failed load is not retried
load_whisper_NoFallback(cuda_available, gpu_load_ok, cpu_load_ok) ==
  LET device == IF cuda_available THEN "cuda" ELSE "cpu"
  IN IF WhisperModel(device, gpu_load_ok, cpu_load_ok)
       THEN [raised |-> FALSE, device |-> device, loads |-> <<device>>]
       ELSE [raised |-> TRUE, device |-> "none", loads |-> <<device>>]

\* load_whisper(model_size): the device by torch.cuda.is_available(), the
\* load on it, and on failure of a GPU load one more load on the CPU,
\* outside the try; loads lists the devices a load was tried on
load_whisper(cuda_available, gpu_load_ok, cpu_load_ok) ==
  LET device == IF cuda_available THEN "cuda" ELSE "cpu"
  IN IF WhisperModel(device, gpu_load_ok, cpu_load_ok)
       THEN [raised |-> FALSE, device |-> device, loads |-> <<device>>]
     ELSE IF device = "cuda"
       THEN IF WhisperModel("cpu", gpu_load_ok, cpu_load_ok)
              THEN [raised |-> FALSE, device |-> "cpu",
                    loads |-> <<"cuda", "cpu">>]
              ELSE [raised |-> TRUE, device |-> "none",
                    loads |-> <<"cuda", "cpu">>]
     ELSE [raised |-> TRUE, device |-> "none", loads |-> <<"cpu">>]

\* the lines of the log: the header, and a row with its text_length
Header == [header |-> TRUE, text_length |-> 0]
Row(text_length) == [header |-> FALSE, text_length |-> text_length]

\* os.path.exists(log_file)
file_exists(file) == file # <<>>

\* mutant: the header is written on every call
log_performance_AlwaysHeader(file, text_length) ==
  file \o <<Header, Row(text_length)>>

\* log_performance: open in append mode, the header first if the file did
\* not exist, then one row
log_performance(file, text_length) ==
  IF file_exists(file)
    THEN Append(file, Row(text_length))
    ELSE <<Header, Row(text_length)>>

\* the rows of the log, the header left out
Rows(file) == SelectSeq(file, LAMBDA line : ~line.header)

\* ---------------------------------------------------------------- Init
\* After TyniWispr.__init__: state IDLE, lock free, recorder unarmed with an
\* empty buffer and no stream, overlay never shown, no key handler running.
Init ==
  /\ state = IDLE
  /\ state_lock = FALSE
  /\ recording = FALSE
  /\ audio_buffer = <<>>
  /\ stream = "none"
  /\ is_showing = FALSE
  /\ current_mode = "none"
  /\ thread = "dead"
  /\ orphans = EmptyBag
  /\ \E args \in parse_arguments, probe \in Probes, client_ok \in BOOLEAN :
       enhancer = load_enhancer_llm(args, probe, client_ok)
  /\ log_perf \in BOOLEAN
  /\ perf_log \in (IF log_perf THEN {<<>>, <<Header>>} ELSE {<<>>})
  /\ handlers = EmptyBag
  /\ cb_pc = "idle"
  /\ cb_stale = FALSE
  /\ main_pc = "start"
  /\ hooked = TRUE
  /\ calls = <<>>

\* ------------------------------------------------------------ helpers
\* the process is running: run has neither returned nor raised. The key
\* handler, overlay and stream threads are daemon threads of the process
\* and end with it.
Alive == main_pc # "exited"

Running == BagToSet(handlers)

\* the handler threads that can take a step
Scheduled == {h \in Running : Alive}

\* handler h goes on as record g
Becomes(h, g) == handlers' = (handlers (-) SetToBag({h})) (+) SetToBag({g})

Goto(h, to) == Becomes(h, [h EXCEPT !.pc = to])

Call(stage, arg, out) == [stage |-> stage, arg |-> arg, out |-> out]

Stages(cs) == [i \in 1..Len(cs) |-> cs[i].stage]

\* ------------------------------------------------- RecordingOverlay
\* The overlay window is on screen while its thread is in the display loop.
OverlayHidden == ~is_showing /\ thread \in {"dead", "exit"}

\* RecordingOverlay.show(mode): self.thread is assigned a new thread; the
\* thread it referred to, if it has statements left to run, runs on
show(mode) ==
  IF is_showing
    THEN UNCHANGED overlay_vars
    ELSE /\ is_showing' = TRUE
         /\ current_mode' = mode
         /\ thread' = "loop"
         /\ orphans' = IF thread \in {"loop", "finally"}
                         THEN orphans (+) SetToBag({thread})
                         ELSE orphans

\* RecordingOverlay.hide, `if self.is_showing: self.is_showing = False`
hide_signal(h, wait_pc, done_pc) ==
  IF is_showing
    THEN /\ is_showing' = FALSE
         /\ Goto(h, wait_pc)
    ELSE /\ UNCHANGED is_showing
         /\ Goto(h, done_pc)

\* RecordingOverlay.hide, `while self.thread and self.thread.is_alive()`
hide_wait(h, done_pc) ==
  /\ thread = "dead"
  /\ Goto(h, done_pc)

\* _create_overlay: `while self.is_showing` ends
OverlayLoopExit ==
  /\ Alive
  /\ thread = "loop"
  /\ ~is_showing
  /\ thread' = "finally"
  /\ UNCHANGED <<state, state_lock, recorder_vars, is_showing, current_mode,
                 orphans,
                 config_vars,
                 main_vars, perf_log, handlers, callback_vars, calls>>

\* _create_overlay: Tk raises (no display, window destroyed): except, pass
OverlayFail ==
  /\ Alive
  /\ thread = "loop"
  /\ is_showing
  /\ thread' = "finally"
  /\ UNCHANGED <<state, state_lock, recorder_vars, is_showing, current_mode,
                 orphans,
                 config_vars,
                 main_vars, perf_log, handlers, callback_vars, calls>>

\* _create_overlay: finally: destroy the window, root = None, is_showing = False
OverlayCleanup ==
  /\ Alive
  /\ thread = "finally"
  /\ is_showing' = FALSE
  /\ thread' = "exit"
  /\ UNCHANGED <<state, state_lock, recorder_vars, current_mode, orphans,
                 config_vars,
                 main_vars,
                 perf_log, handlers, callback_vars, calls>>

\* the overlay thread ends: is_alive() becomes False
OverlayThreadEnd ==
  /\ Alive
  /\ thread = "exit"
  /\ thread' = "dead"
  /\ UNCHANGED <<state, state_lock, recorder_vars, is_showing, current_mode,
                 orphans,
                 config_vars,
                 main_vars, perf_log, handlers, callback_vars, calls>>

\* an overlay thread at pc that self.thread no longer refers to goes on to
\* its next statement, or ends
Orphan(pc, to) ==
  /\ Alive
  /\ BagIn(pc, orphans)
  /\ orphans' = (orphans (-) SetToBag({pc})) (+) SetToBag(to)
  /\ UNCHANGED <<state, state_lock, recorder_vars, current_mode, thread,
                 config_vars, main_vars, perf_log, handlers, callback_vars,
                 calls>>

\* _create_overlay of such a thread: `while self.is_showing` ends
OrphanLoopExit ==
  /\ ~is_showing
  /\ Orphan("loop", {"finally"})
  /\ UNCHANGED is_showing

\* _create_overlay of such a thread: `while self.is_showing` goes on, since
\* a later show() has set the flag again, until Tk raises
OrphanFail ==
  /\ is_showing
  /\ Orphan("loop", {"finally"})
  /\ UNCHANGED is_showing

\* _create_overlay of such a thread: finally: self.root.destroy(),
\* self.root = None, self.is_showing = False; the thread ends
OrphanCleanup ==
  /\ Orphan("finally", {})
  /\ is_showing' = FALSE

\* ---------------------------------------------------- AudioRecorder
\* TyniWispr.run: self.audio_recorder.start_stream() returns
start_stream ==
  /\ main_pc = "start"
  /\ stream = "none"
  /\ stream' = "active"
  /\ main_pc' = "wait"
  /\ UNCHANGED <<state, state_lock, recording, audio_buffer, overlay_vars,
                 config_vars, hooked, perf_log, handlers, callback_vars, calls>>

\* start_stream raises: sd.InputStream(...) finds no input device (the
\* stream stays None) or stream.start() fails (the stream is left opened).
\* The call stands before run's try block: the exception leaves run and
\* ends the process.
start_stream_raises ==
  /\ main_pc = "start"
  /\ stream = "none"
  /\ stream' \in {"none", "opened"}
  /\ main_pc' = "exited"
  /\ UNCHANGED <<state, state_lock, recording, audio_buffer, overlay_vars,
                 config_vars, hooked, perf_log, handlers, callback_vars, calls>>

\* AudioRecorder.stop_stream: `if self.stream:` stop and close it
stop_stream(st) == IF st = "none" THEN "none" ELSE "closed"

\* _audio_callback: `if self.recording:` read as true
audio_callback_check ==
  /\ stream = "active"
  /\ cb_pc = "idle"
  /\ Len(audio_buffer) < MaxChunks
  /\ recording
  /\ cb_pc' = "append"
  /\ cb_stale' = FALSE
  /\ UNCHANGED <<state, state_lock, recorder_vars, overlay_vars, config_vars,
                 main_vars,
                 perf_log, handlers, calls>>

\* _audio_callback: `self.audio_buffer.append(indata.copy())`
audio_callback_append ==
  /\ Alive
  /\ cb_pc = "append"
  /\ audio_buffer' =
       Append(audio_buffer, Chunk(IF cb_stale THEN "stale" ELSE "fresh", indata))
  /\ cb_pc' = "idle"
  /\ cb_stale' = FALSE
  /\ UNCHANGED <<state, state_lock, recording, stream, overlay_vars,
                 config_vars, main_vars, perf_log, handlers, calls>>

\* _audio_callback: the append of a callback that read the flag before the
\* latest start_recording. `self.audio_buffer = []` rebinds the attribute:
\* when the callback loaded the old list before that, its chunk goes to the
\* discarded list (when it loads the attribute after, audio_callback_append).
audio_callback_append_discarded ==
  /\ Alive
  /\ cb_pc = "append"
  /\ cb_stale
  /\ cb_pc' = "idle"
  /\ cb_stale' = FALSE
  /\ UNCHANGED <<state, state_lock, recorder_vars, overlay_vars, config_vars,
                 main_vars, perf_log, handlers, calls>>

\* np.concatenate(self.audio_buffer, axis=0): the samples of the chunks,
\* in insertion order
RECURSIVE concatenate(_)
concatenate(chunks) ==
  IF chunks = <<>>
    THEN <<>>
    ELSE Head(chunks).samples \o concatenate(Tail(chunks))

\* the int16 samples as float32 divided by 32768.0 (each quotient is exact
\* in float32), flattened, and the duration len(audio_mono) / samplerate
normalized(audio_np, divisor) ==
  [is_none |-> FALSE,
   mono |-> [i \in DOMAIN audio_np |-> Ratio(audio_np[i], divisor)],
   duration |-> Ratio(Len(audio_np), DEFAULT_SAMPLERATE)]

\* mutant: no check for an empty buffer
process_audio_buffer_NoEmptyCheck(buf) == normalized(concatenate(buf), 32768)

\* mutant: the samples are divided by the largest int16 value
process_audio_buffer_DivideByMax(buf) ==
  IF buf = <<>> THEN None ELSE normalized(concatenate(buf), 32767)

\* process_audio_buffer: (None, 0) for an empty buffer, else the chunks
\* concatenated in insertion order and normalised
process_audio_buffer(buf) ==
  IF buf = <<>> THEN None ELSE normalized(concatenate(buf), 32768)

\* -------------------------------------------------- collaborators
\* transcribe_audio: " ".join(segment texts).strip()
transcribe_audio(joined) == strip(joined)

\* mutant: the sanity check lets a response of 3 times the input length pass
enhance_ollama_GuardAtMost(e, txt, resp) ==
  IF e.ollama_available /\ resp.ok
    THEN LET enhanced_text == strip(resp.content)
         IN IF enhanced_text # <<>> /\ Len(enhanced_text) <= Len(txt) * 3
              THEN enhanced_text
              ELSE txt
    ELSE txt

\* LLMEnhancer.enhance_ollama; resp is the POST's outcome: not ok for a
\* connection error, a timeout, a status other than 200 or a body that is
\* no JSON object with a string "response"
enhance_ollama(e, txt, resp) ==
  IF e.ollama_available /\ resp.ok
    THEN LET enhanced_text == strip(resp.content)
         IN IF enhanced_text # <<>> /\ Len(enhanced_text) < Len(txt) * 3
              THEN enhanced_text
              ELSE txt
    ELSE txt

\* LLMEnhancer.enhance_azure_openai; resp is simple_chat's outcome: not ok
\* when it raises or returns None
enhance_azure_openai(e, txt, resp) ==
  IF e.azure_available /\ resp.ok
    THEN IF resp.content # <<>> /\ Len(resp.content) < Len(txt) * 3
           THEN strip(resp.content)
           ELSE txt
    ELSE txt

\* LLMEnhancer.enhance: the backend by the flags, RuntimeError with neither
enhance(e, txt, resp) ==
  IF e.azure_available
    THEN [raised |-> FALSE, text |-> enhance_azure_openai(e, txt, resp)]
  ELSE IF e.ollama_available
    THEN [raised |-> FALSE, text |-> enhance_ollama(e, txt, resp)]
  ELSE [raised |-> TRUE, text |-> <<>>]

\* the outcomes of a backend request for the replies in S
ResponsesOf(S) ==
  {[ok |-> FALSE, content |-> <<>>]} \cup {[ok |-> TRUE, content |-> c] : c \in S}

Responses == ResponsesOf(Texts)

\* post_process_transcription; corrected is the text the substitutions and
\* the grammar pass leave. Indexing an empty text raises IndexError.
post_process_transcription(txt, corrected) ==
  IF strip(txt) = <<>>
    THEN [raised |-> FALSE, text |-> <<>>]
    ELSE IF corrected = <<>>
      THEN [raised |-> TRUE, text |-> <<>>]
      ELSE [raised |-> FALSE,
            text |-> <<upper(Head(corrected))>> \o Tail(corrected)]

\* \w of the re module: a letter, a digit or "_"; of the characters of the
\* model only the blank is none
IsWordChar(c) == c # " "

\* \b at position p of text, between text[p - 1] and text[p]: exactly one
\* of the two is a word character (the ends of the text count as none)
Boundary(text, p) ==
  (p > 1 /\ IsWordChar(text[p - 1])) # (p <= Len(text) /\ IsWordChar(text[p]))

\* mutant: the key matches wherever it occurs
MatchesAt_Substring(incorrect, text, p) ==
  /\ p + Len(incorrect) - 1 <= Len(text)
  /\ SubSeq(text, p, p + Len(incorrect) - 1) = incorrect

\* r'\b' + re.escape(incorrect) + r'\b' matches at position p of text
MatchesAt(incorrect, text, p) ==
  /\ p + Len(incorrect) - 1 <= Len(text)
  /\ SubSeq(text, p, p + Len(incorrect) - 1) = incorrect
  /\ Boundary(text, p)
  /\ Boundary(text, p + Len(incorrect))

\* re.sub from position p on: the leftmost match is replaced and the scan
\* goes on behind it (incorrect is not empty)
RECURSIVE sub_from(_, _, _, _)
sub_from(incorrect, correct, text, p) ==
  IF p > Len(text) THEN <<>>
  ELSE IF MatchesAt(incorrect, text, p)
    THEN correct \o sub_from(incorrect, correct, text, p + Len(incorrect))
    ELSE <<text[p]>> \o sub_from(incorrect, correct, text, p + 1)

\* re.sub(r'\b' + re.escape(incorrect) + r'\b', correct, text)
re_sub(incorrect, correct, text) == sub_from(incorrect, correct, text, 1)

\* `for incorrect, correct in corrections.items(): text = re.sub(...)`:
\* the entries in the order the table lists them, each on the text the
\* one before it left
RECURSIVE apply_corrections(_, _)
apply_corrections(corrections, text) ==
  IF corrections = <<>> THEN text
  ELSE apply_corrections(
         Tail(corrections),
         re_sub(Head(corrections).incorrect, Head(corrections).correct, text))

\* language_tool_python.correct(text, matches) inside try / except: pass;
\* grammar is what the tool does: "unchanged" (nothing to fix), "failed"
\* (the construction, check or correct raises and `except: pass` keeps the
\* text) or "emptied" (its corrections leave no text)
language_tool(text, grammar) == IF grammar = "emptied" THEN <<>> ELSE text

\* post_process_transcription(text, config_file_path) with the table
\* load_corrections returns and the outcome of the grammar pass
correct(text, corrections, grammar) ==
  post_process_transcription(
    text, language_tool(apply_corrections(corrections, strip(text)), grammar))

\* ------------------------------------------------------- key events
\* The keyboard hook delivers a press of the toggle key or of the cancel
\* key: a handler thread starts and waits for the lock.
KeyPress(k) ==
  /\ Alive
  /\ hooked
  /\ BagCardinality(handlers) < NumHandlers
  /\ Len(Rows(perf_log)) < MaxRows
  /\ handlers' = handlers (+) SetToBag({[pc |-> "lock", kind |-> k,
                                         audio |-> None, text |-> NoText,
                                         exc |-> "none",
                                         late |-> (state = TRANSCRIBING)]})
  /\ UNCHANGED <<state, state_lock, recorder_vars, overlay_vars, config_vars,
                 main_vars,
                 perf_log, callback_vars, calls>>

\* mutant: the handlers take no lock
LockFree_NoLock == TRUE

\* `with self.state_lock:` can be entered
LockFree == ~state_lock

\* _on_num_lock_press / _on_escape_press: `with self.state_lock:` entered
AcquireLock(h) ==
  /\ h.pc = "lock"
  /\ LockFree
  /\ state_lock' = TRUE
  /\ Goto(h, "dispatch")
  /\ UNCHANGED <<state, recorder_vars, overlay_vars, config_vars,
                 main_vars, perf_log,
                 callback_vars, calls>>

\* _on_num_lock_press: the branch taken on self.state
on_num_lock_press(s) ==
  IF s = IDLE THEN "start_state"
  ELSE IF s = RECORDING THEN "stop_state"
  ELSE "release"

\* mutant: the cancel key cancels whatever is going on, a pipeline too
on_escape_press_AnyState(s) ==
  IF s # IDLE THEN "cancel_state" ELSE "release"

\* mutant: the cancel key stops and transcribes instead of cancelling
on_escape_press_Transcribes(s) ==
  IF s = RECORDING THEN "stop_state" ELSE "release"

\* _on_escape_press: the branch taken on self.state
on_escape_press(s) ==
  IF s = RECORDING THEN "cancel_state" ELSE "release"

Dispatch(h) ==
  /\ h.pc = "dispatch"
  /\ Goto(h, IF h.kind = "toggle" THEN on_num_lock_press(state)
                                  ELSE on_escape_press(state))
  /\ UNCHANGED <<state, state_lock, recorder_vars, overlay_vars, config_vars,
                 main_vars,
                 perf_log, callback_vars, calls>>

\* the `with` block is left normally: the lock is released, the handler ends
ReleaseLock(h) ==
  /\ h.pc = "release"
  /\ state_lock' = FALSE
  /\ handlers' = handlers (-) SetToBag({h})
  /\ calls' = <<>>
  /\ UNCHANGED <<state, recorder_vars, overlay_vars, config_vars,
                 main_vars, perf_log,
                 callback_vars>>

\* mutant: an exception ends the handler with the lock still held
RaiseOut_KeepsLock(h) ==
  /\ h.pc = "raise"
  /\ handlers' = handlers (-) SetToBag({h})
  /\ calls' = <<>>
  /\ UNCHANGED <<state, state_lock, recorder_vars, overlay_vars, config_vars,
                 main_vars, perf_log, callback_vars>>

\* an exception leaves the `with` block: the lock is released, the keyboard
\* listener prints the traceback and the handler ends
RaiseOut(h) ==
  /\ h.pc = "raise"
  /\ state_lock' = FALSE
  /\ handlers' = handlers (-) SetToBag({h})
  /\ calls' = <<>>
  /\ UNCHANGED <<state, recorder_vars, overlay_vars, config_vars,
                 main_vars, perf_log,
                 callback_vars>>

\* a statement `self.state = value` of a handler
SetState(h, at, value, to) ==
  /\ h.pc = at
  /\ state' = value
  /\ Goto(h, to)
  /\ UNCHANGED <<state_lock, recorder_vars, overlay_vars, config_vars,
                 main_vars,
                 perf_log, callback_vars, calls>>

\* a call of self.overlay.hide(): the flag is cleared
Hide(h, at, wait_pc, done_pc) ==
  /\ h.pc = at
  /\ hide_signal(h, wait_pc, done_pc)
  /\ UNCHANGED <<state, state_lock, recorder_vars, current_mode, thread,
                 orphans, config_vars, main_vars, perf_log, callback_vars,
                 calls>>

\* a call of self.overlay.hide(): the overlay thread is waited for
HideWait(h, at, done_pc) ==
  /\ h.pc = at
  /\ hide_wait(h, done_pc)
  /\ UNCHANGED <<state, state_lock, recorder_vars, overlay_vars, config_vars,
                 main_vars,
                 perf_log, callback_vars, calls>>

\* ------------------------------------------------ _start_recording
StartRecording_state(h) == SetState(h, "start_state", RECORDING, "start_clear")

\* AudioRecorder.start_recording: self.audio_buffer = []
StartRecording_clear(h) ==
  /\ h.pc = "start_clear"
  /\ audio_buffer' = <<>>
  /\ cb_stale' = (cb_pc = "append")
  /\ Goto(h, "start_arm")
  /\ UNCHANGED <<state, state_lock, recording, stream, overlay_vars,
                 config_vars, main_vars, perf_log, cb_pc, calls>>

\* AudioRecorder.start_recording: self.recording = True
StartRecording_arm(h) ==
  /\ h.pc = "start_arm"
  /\ recording' = TRUE
  /\ calls' = Append(calls, Call("arm", <<>>, <<>>))
  /\ Goto(h, "start_show")
  /\ UNCHANGED <<state, state_lock, audio_buffer, stream, overlay_vars,
                 config_vars, main_vars, perf_log, callback_vars>>

\* self.overlay.show(mode='recording')
StartRecording_show(h) ==
  /\ h.pc = "start_show"
  /\ show("recording")
  /\ Goto(h, "release")
  /\ UNCHANGED <<state, state_lock, recorder_vars, config_vars,
                 main_vars, perf_log,
                 callback_vars, calls>>

\* mutant: stop_recording leaves the armed flag set
stop_recording_KeepsArmed(h, at, to) ==
  /\ h.pc = at
  /\ calls' = Append(calls, Call("disarm", <<>>, <<>>))
  /\ Goto(h, to)
  /\ UNCHANGED <<state, state_lock, recorder_vars, overlay_vars,
                 config_vars, main_vars, perf_log, callback_vars>>

\* AudioRecorder.stop_recording: self.recording = False
stop_recording(h, at, to) ==
  /\ h.pc = at
  /\ recording' = FALSE
  /\ calls' = Append(calls, Call("disarm", <<>>, <<>>))
  /\ Goto(h, to)
  /\ UNCHANGED <<state, state_lock, audio_buffer, stream, overlay_vars,
                 config_vars, main_vars, perf_log, callback_vars>>

\* ----------------------------------------------- _cancel_recording
CancelRecording_state(h) == SetState(h, "cancel_state", IDLE, "cancel_disarm")
CancelRecording_disarm(h) == stop_recording(h, "cancel_disarm", "cancel_hide")
CancelRecording_hide(h) == Hide(h, "cancel_hide", "cancel_wait", "release")
CancelRecording_wait(h) == HideWait(h, "cancel_wait", "release")

\* ------------------------------------ _stop_recording_and_transcribe
StopRecording_state(h) == SetState(h, "stop_state", TRANSCRIBING, "stop_disarm")
StopRecording_disarm(h) == stop_recording(h, "stop_disarm", "pt_show")

\* ------------------------------------------- _process_transcription
\* self.overlay.show(mode='transcribing')
ProcessTranscription_show(h) ==
  /\ h.pc = "pt_show"
  /\ show("transcribing")
  /\ Goto(h, "pt_normalize")
  /\ UNCHANGED <<state, state_lock, recorder_vars, config_vars,
                 main_vars, perf_log,
                 callback_vars, calls>>

\* `if audio_mono is None:` early exit, else on to the transcription
after_normalize(a) ==
  IF a.is_none THEN "pt_noaudio_hide" ELSE "pt_transcribe"

\* audio_mono, audio_duration = self.audio_recorder.process_audio_buffer()
ProcessTranscription_normalize(h) ==
  /\ h.pc = "pt_normalize"
  /\ LET a == process_audio_buffer(audio_buffer)
     IN /\ Becomes(h, [h EXCEPT !.audio = a, !.pc = after_normalize(a)])
        /\ calls' = Append(calls, Call("normalize", audio_buffer, a.mono))
  /\ UNCHANGED <<state, state_lock, recorder_vars, overlay_vars, config_vars,
                 main_vars,
                 perf_log, callback_vars>>

\* mutant: the early exit without audio leaves the overlay on screen
ProcessTranscription_noaudio_hide_Skipped(h) ==
  /\ h.pc = "pt_noaudio_hide"
  /\ Goto(h, "pt_noaudio_idle")
  /\ UNCHANGED <<state, state_lock, recorder_vars, overlay_vars, config_vars,
                 main_vars, perf_log, callback_vars, calls>>

ProcessTranscription_noaudio_hide(h) ==
  Hide(h, "pt_noaudio_hide", "pt_noaudio_wait", "pt_noaudio_idle")
ProcessTranscription_noaudio_wait(h) ==
  HideWait(h, "pt_noaudio_wait", "pt_noaudio_idle")
ProcessTranscription_noaudio_idle(h) ==
  SetState(h, "pt_noaudio_idle", IDLE, "release")

\* mutant: no early exit on an empty transcription
after_transcribe_NoEarlyExit(txt, enh) ==
  IF ~enh.is_none THEN "pt_enhance" ELSE "pt_correct"

\* mutant: enhancement is called whether or not an enhancer is configured
after_transcribe_AlwaysEnhance(txt, enh) ==
  IF txt = <<>> THEN "pt_notext_hide" ELSE "pt_enhance"

\* `if not text:` early exit, else `if self.enhancer:` enhance, else correct
after_transcribe(txt, enh) ==
  IF txt = <<>> THEN "pt_notext_hide"
  ELSE IF ~enh.is_none THEN "pt_enhance"
  ELSE "pt_correct"

\* text = transcribe_audio(self.model, audio_mono): the engine returns
ProcessTranscription_transcribe(h) ==
  /\ h.pc = "pt_transcribe"
  /\ \E joined \in Texts :
       LET txt == transcribe_audio(joined)
       IN /\ Becomes(h, [h EXCEPT !.text = txt,
                                  !.pc = after_transcribe(txt, enhancer)])
          /\ calls' = Append(calls, Call("transcribe", h.audio.mono, txt))
  /\ UNCHANGED <<state, state_lock, recorder_vars, overlay_vars, config_vars,
                 main_vars,
                 perf_log, callback_vars>>

\* transcribe_audio: the engine raises (torch.cuda.OutOfMemoryError or any
\* other Exception); both except clauses re-raise
ProcessTranscription_transcribe_raises(h) ==
  /\ h.pc = "pt_transcribe"
  /\ \E e \in {"OutOfMemoryError", "Exception"} :
       Becomes(h, [h EXCEPT !.exc = e, !.pc = "raise"])
  /\ calls' = Append(calls, Call("transcribe", h.audio.mono, <<>>))
  /\ UNCHANGED <<state, state_lock, recorder_vars, overlay_vars, config_vars,
                 main_vars,
                 perf_log, callback_vars>>

ProcessTranscription_notext_hide(h) ==
  Hide(h, "pt_notext_hide", "pt_notext_wait", "pt_notext_idle")
ProcessTranscription_notext_wait(h) ==
  HideWait(h, "pt_notext_wait", "pt_notext_idle")
ProcessTranscription_notext_idle(h) ==
  SetState(h, "pt_notext_idle", IDLE, "release")

\* enhanced_text = self.enhancer.enhance(text); text = enhanced_text
ProcessTranscription_enhance(h) ==
  /\ h.pc = "pt_enhance"
  /\ \E resp \in Responses :
       LET r == enhance(enhancer, h.text, resp)
       IN /\ Becomes(h, [h EXCEPT
                           !.text = IF r.raised THEN h.text ELSE r.text,
                           !.exc = IF r.raised THEN "RuntimeError" ELSE "none",
                           !.pc = IF r.raised THEN "raise" ELSE "pt_correct"])
          /\ calls' = Append(calls, Call("enhance", h.text, r.text))
  /\ UNCHANGED <<state, state_lock, recorder_vars, overlay_vars, config_vars,
                 main_vars, perf_log, callback_vars>>

\* text = post_process_transcription(text, self.args.corrections_config)
ProcessTranscription_correct(h) ==
  /\ h.pc = "pt_correct"
  /\ \E corrected \in Texts :
       LET r == post_process_transcription(h.text, corrected)
       IN /\ Becomes(h, [h EXCEPT
                           !.text = r.text,
                           !.exc = IF r.raised THEN "IndexError" ELSE "none",
                           !.pc = IF r.raised THEN "raise" ELSE "pt_log"])
          /\ calls' = Append(calls, Call("correct", h.text, r.text))
  /\ UNCHANGED <<state, state_lock, recorder_vars, overlay_vars, config_vars,
                 main_vars,
                 perf_log, callback_vars>>

\* `if self.args.log_performance: log_performance(..., len(text), ...)`
ProcessTranscription_log(h) ==
  /\ h.pc = "pt_log"
  /\ IF log_perf
       THEN /\ perf_log' = log_performance(perf_log, Len(h.text))
            /\ calls' = Append(calls, Call("log", h.text, <<>>))
       ELSE UNCHANGED <<perf_log, calls>>
  /\ Goto(h, "pt_hide")
  /\ UNCHANGED <<state, state_lock, recorder_vars, overlay_vars, config_vars,
                 main_vars,
                 callback_vars>>

\* mutant: the final text is typed without the check for an empty text
after_hide_AlwaysWrites(txt) == "pt_write"

\* `if not text:` back to IDLE without typing, else type
after_hide(txt) == IF txt = <<>> THEN "pt_empty_idle" ELSE "pt_write"

ProcessTranscription_hide(h) ==
  Hide(h, "pt_hide", "pt_hide_wait", after_hide(h.text))
ProcessTranscription_hide_wait(h) ==
  HideWait(h, "pt_hide_wait", after_hide(h.text))
ProcessTranscription_empty_idle(h) ==
  SetState(h, "pt_empty_idle", IDLE, "release")

\* pyautogui.write(text + ' ')
ProcessTranscription_write(h) ==
  /\ h.pc = "pt_write"
  /\ calls' = Append(calls, Call("inject", h.text, h.text \o <<" ">>))
  /\ Goto(h, "pt_idle")
  /\ UNCHANGED <<state, state_lock, recorder_vars, overlay_vars, config_vars,
                 main_vars,
                 perf_log, callback_vars>>

\* mutant: the last statement leaves the state as it is
ProcessTranscription_idle_Stays(h) ==
  SetState(h, "pt_idle", TRANSCRIBING, "release")

ProcessTranscription_idle(h) == SetState(h, "pt_idle", IDLE, "release")

\* -------------------------------------------------- a handler's step
HandlerStep(h) ==
  \/ AcquireLock(h)
  \/ Dispatch(h)
  \/ ReleaseLock(h)
  \/ RaiseOut(h)
  \/ StartRecording_state(h)
  \/ StartRecording_clear(h)
  \/ StartRecording_arm(h)
  \/ StartRecording_show(h)
  \/ CancelRecording_state(h)
  \/ CancelRecording_disarm(h)
  \/ CancelRecording_hide(h)
  \/ CancelRecording_wait(h)
  \/ StopRecording_state(h)
  \/ StopRecording_disarm(h)
  \/ ProcessTranscription_show(h)
  \/ ProcessTranscription_normalize(h)
  \/ ProcessTranscription_noaudio_hide(h)
  \/ ProcessTranscription_noaudio_wait(h)
  \/ ProcessTranscription_noaudio_idle(h)
  \/ ProcessTranscription_transcribe(h)
  \/ ProcessTranscription_transcribe_raises(h)
  \/ ProcessTranscription_notext_hide(h)
  \/ ProcessTranscription_notext_wait(h)
  \/ ProcessTranscription_notext_idle(h)
  \/ ProcessTranscription_enhance(h)
  \/ ProcessTranscription_correct(h)
  \/ ProcessTranscription_log(h)
  \/ ProcessTranscription_hide(h)
  \/ ProcessTranscription_hide_wait(h)
  \/ ProcessTranscription_empty_idle(h)
  \/ ProcessTranscription_write(h)
  \/ ProcessTranscription_idle(h)

\* ------------------------------------------------- TyniWispr.run / cleanup
\* keyboard.wait() is interrupted (KeyboardInterrupt): the finally block
\* runs cleanup, whose first statement is keyboard.unhook_all()
cleanup_unhook ==
  /\ main_pc = "wait"
  /\ hooked' = FALSE
  /\ main_pc' = "cleanup_hide"
  /\ UNCHANGED <<state, state_lock, recorder_vars, overlay_vars, config_vars,
                 perf_log, handlers, callback_vars, calls>>

\* cleanup: self.overlay.hide(), `if self.is_showing: self.is_showing = False`
cleanup_hide ==
  /\ main_pc = "cleanup_hide"
  /\ IF is_showing
       THEN /\ is_showing' = FALSE
            /\ main_pc' = "cleanup_wait"
       ELSE /\ UNCHANGED is_showing
            /\ main_pc' = "cleanup_stop"
  /\ UNCHANGED <<state, state_lock, recorder_vars, current_mode, thread,
                 orphans, config_vars, hooked, perf_log, handlers,
                 callback_vars, calls>>

\* cleanup: self.overlay.hide() waits for the overlay thread
cleanup_wait ==
  /\ main_pc = "cleanup_wait"
  /\ thread = "dead"
  /\ main_pc' = "cleanup_stop"
  /\ UNCHANGED <<state, state_lock, recorder_vars, overlay_vars, config_vars,
                 hooked, perf_log, handlers, callback_vars, calls>>

\* cleanup: self.audio_recorder.stop_stream(); run returns and the process
\* ends, and with it the daemon threads (key handlers, overlay, stream)
cleanup_stop ==
  /\ main_pc = "cleanup_stop"
  /\ stream' = stop_stream(stream)
  /\ main_pc' = "exited"
  /\ UNCHANGED <<state, state_lock, recording, audio_buffer, overlay_vars,
                 config_vars, hooked, perf_log, handlers, callback_vars, calls>>

\* ---------------------------------------------------------------- Next
Next ==
  \/ \E k \in {"toggle", "cancel"} : KeyPress(k)
  \/ \E h \in Scheduled : HandlerStep(h)
  \/ start_stream
  \/ start_stream_raises
  \/ audio_callback_check
  \/ audio_callback_append
  \/ audio_callback_append_discarded
  \/ OverlayLoopExit
  \/ OverlayFail
  \/ OverlayCleanup
  \/ OverlayThreadEnd
  \/ OrphanLoopExit
  \/ OrphanFail
  \/ OrphanCleanup
  \/ cleanup_unhook
  \/ cleanup_hide
  \/ cleanup_wait
  \/ cleanup_stop

Spec == Init /\ [][Next]_vars

\* Scheduling: a handler that can take a step takes one (every collaborator
\* call returns or raises); the overlay thread, once started, runs on to its
\* end; the keyboard listener serves every queued key event, so a waiting
\* handler of either kind gets the lock.
HandlerRun == \E h \in Scheduled : HandlerStep(h)
OverlayRun == OverlayLoopExit \/ OverlayCleanup \/ OverlayThreadEnd
LockGranted(k) == \E h \in Scheduled : h.kind = k /\ AcquireLock(h)

FairSpec ==
  /\ Spec
  /\ WF_vars(HandlerRun)
  /\ WF_vars(OverlayRun)
  /\ \A k \in {"toggle", "cancel"} : SF_vars(LockGranted(k))

\* =================================================================
\* The functions on their own
\* =================================================================
\* The functions of the program applied outside a key cycle, to every
\* argument of a bounded set. calls holds the one application: its
\* arguments from the start, its result once the function has returned or
\* raised.
EnhanceInputs == {Word(n) : n \in 0..MaxInput}

EnhanceReplies ==
  {Padded(l, n, r) : l \in 0..MaxPad, n \in 0..MaxReply, r \in 0..MaxPad}

\* the result of an application not made yet
Pending == [raised |-> FALSE, text |-> <<"?">>]

\* enhance on every instance, text and backend outcome
EnhanceApplications ==
  {Call("LLMEnhancer.enhance",
        [enhancer |-> e, text |-> txt, resp |-> resp], Pending) :
     e \in LLMEnhancer, txt \in EnhanceInputs,
     resp \in ResponsesOf(EnhanceReplies)}

\* load_enhancer_llm on every pair of flags (a Namespace built without the
\* parser may set both), probe outcome and Azure client outcome
LoadApplications ==
  {Call("load_enhancer_llm",
        [args |-> args, probe |-> probe, client_ok |-> client_ok], Pending) :
     args \in Namespaces, probe \in Probes, client_ok \in BOOLEAN}

\* the characters of the transcriptions to correct
Letters == {"a", "b", "A"}

CorrectionTexts == UNION {[1..n -> Letters \cup {" "}] : n \in 0..MaxText}

\* the entries of corrections.json: a word to replace, and its replacement
\* (nothing, a word, two words)
CorrectionEntries ==
  [incorrect : {<<l>> : l \in Letters},
   correct : {<<>>, <<"a">>, <<"b">>, <<"a", " ", "a">>}]

\* the tables json.load returns: the entries in the order of the file, no
\* key twice
CorrectionsTables ==
  {t \in UNION {[1..n -> CorrectionEntries] : n \in 0..MaxEntries} :
     \A i, j \in DOMAIN t : i # j => t[i].incorrect # t[j].incorrect}

\* the texts of at most two characters
ShortTexts == UNION {[1..n -> Letters \cup {" "}] : n \in 0..2}

\* the tables of at most one entry
SmallTables == {<<>>} \cup {<<entry>> : entry \in CorrectionEntries}

\* default_corrections of load_corrections: {"  ": " "}
default_corrections == <<[incorrect |-> <<" ", " ">>, correct |-> <<" ">>]>>

\* the corrections file at config_file_path before a call: absent, or
\* holding a JSON object (content is its table), another JSON value, text
\* that is no JSON, or not readable; writable tells whether
\* open(config_file_path, 'w') succeeds
CorrectionsFiles ==
  {[kind |-> "object", content |-> t, writable |-> w] :
     t \in CorrectionsTables, w \in BOOLEAN}
  \cup
  {[kind |-> k, content |-> <<>>, writable |-> w] :
     k \in {"absent", "other_json", "unparsable", "unreadable"},
     w \in BOOLEAN}

\* the try block of load_corrections: the table it returns or the exception
\* it raises, and the file it leaves
load_corrections_try(file) ==
  LET returns(c, f) == [exc |-> "none", corrections |-> c, file |-> f]
      raises(e) == [exc |-> e, corrections |-> <<>>, file |-> file]
  IN IF file.kind # "absent"
       THEN IF file.kind = "unreadable" THEN raises("OSError")
            ELSE IF file.kind = "unparsable" THEN raises("JSONDecodeError")
            ELSE IF file.kind = "object" THEN returns(file.content, file)
            ELSE returns(default_corrections, file)
       ELSE IF file.writable
              THEN returns(default_corrections,
                           [kind |-> "object", content |-> default_corrections,
                            writable |-> TRUE])
              ELSE raises("OSError")

\* mutant: only the parse error is caught
load_corrections_OnlyParseErrors(file) ==
  LET try == load_corrections_try(file)
  IN [raised |-> try.exc \notin {"none", "JSONDecodeError"},
      corrections |-> IF try.exc = "none" THEN try.corrections
                                          ELSE default_corrections,
      file |-> try.file]

\* load_corrections(config_file_path): `except json.JSONDecodeError` and
\* `except Exception` both return the default table
load_corrections(file) ==
  LET try == load_corrections_try(file)
  IN [raised |-> FALSE,
      corrections |-> IF try.exc = "none" THEN try.corrections
                                          ELSE default_corrections,
      file |-> try.file]

\* load_corrections on every file
LoadCorrectionsApplications ==
  {Call("load_corrections", [file |-> file], Pending) :
     file \in CorrectionsFiles}

Christy == <<"C", "h", "r", "i", "s", "t", "y">>
Christie == <<"C", "h", "r", "i", "s", "t", "i", "e">>

\* a name correction on a text that holds the name as a word and inside a
\* longer word: 'Christy Christyson' under {"Christy": "Christie"}
ChristyApplication ==
  Call("post_process_transcription",
       [text |-> Christy \o <<" ">> \o Christy \o <<"s", "o", "n">>,
        corrections |-> <<[incorrect |-> Christy, correct |-> Christie]>>,
        grammar |-> "unchanged"],
       Pending)

\* post_process_transcription on every text and table with the grammar
\* pass changing nothing, on every text of at most two characters and table
\* of at most one entry with the grammar pass failing, and on every text
\* with the table empty and the grammar pass leaving no text
CorrectApplications ==
  {Call("post_process_transcription",
        [text |-> text, corrections |-> corrections, grammar |-> "unchanged"],
        Pending) :
     text \in CorrectionTexts, corrections \in CorrectionsTables}
  \cup
  {Call("post_process_transcription",
        [text |-> text, corrections |-> corrections, grammar |-> "failed"],
        Pending) :
     text \in ShortTexts, corrections \in SmallTables}
  \cup
  {Call("post_process_transcription",
        [text |-> text, corrections |-> <<>>, grammar |-> "emptied"],
        Pending) :
     text \in CorrectionTexts}
  \cup {ChristyApplication}

\* TyniWispr(args) on a machine with or without a GPU, each load of the
\* speech model succeeding or not
InitApplications ==
  {Call("TyniWispr.__init__",
        [cuda_available |-> c, gpu_load_ok |-> g, cpu_load_ok |-> p], Pending) :
     c \in BOOLEAN, g \in BOOLEAN, p \in BOOLEAN}

\* the applications of the functions that touch no object of the program
Applications ==
  EnhanceApplications \cup LoadApplications \cup CorrectApplications
    \cup LoadCorrectionsApplications

\* the blocks sounddevice delivers with dtype='int16': the extreme samples
Int16Samples == {-32768, 32767}

Blocks == UNION {[1..n -> Int16Samples] : n \in 1..MaxSamples}

\* the buffers a recorder holds between two calls
Buffers ==
  UNION {[1..n -> {Chunk("fresh", b) : b \in Blocks}] : n \in 0..MaxBuffer}

\* the methods of AudioRecorder applied to the recorder as it stands
RecorderMethods ==
  {"AudioRecorder.start_recording", "AudioRecorder.process_audio_buffer"}

\* Either a function is applied next to an idle recorder, or a method of
\* the recorder is applied to a recorder armed or not, with the chunks it
\* holds, or the program is about to be constructed (no hook, no stream).
FunctionInit ==
  /\ \/ /\ recording = FALSE
        /\ audio_buffer = <<>>
        /\ \E c \in Applications : calls = <<c>>
        /\ stream = "active"
        /\ main_pc = "wait"
        /\ hooked = TRUE
     \/ /\ recording \in BOOLEAN
        /\ audio_buffer \in Buffers
        /\ \E m \in RecorderMethods :
             calls = <<Call(m, [audio_buffer |-> audio_buffer,
                                recording |-> recording], Pending)>>
        /\ stream = "active"
        /\ main_pc = "wait"
        /\ hooked = TRUE
     \/ /\ recording = FALSE
        /\ audio_buffer = <<>>
        /\ \E c \in InitApplications : calls = <<c>>
        /\ stream = "none"
        /\ main_pc = "init"
        /\ hooked = FALSE
  /\ state = (IF recording THEN RECORDING ELSE IDLE)
  /\ state_lock = FALSE
  /\ is_showing = FALSE
  /\ current_mode = "none"
  /\ thread = "dead"
  /\ orphans = EmptyBag
  /\ enhancer = NoEnhancer
  /\ log_perf = FALSE
  /\ perf_log = <<>>
  /\ handlers = EmptyBag
  /\ cb_pc = "idle"
  /\ cb_stale = FALSE

\* LLMEnhancer.enhance(text) returns or raises
EnhanceCall ==
  /\ calls[1].stage = "LLMEnhancer.enhance"
  /\ calls[1].out = Pending
  /\ LET a == calls[1].arg
     IN calls' = <<[calls[1] EXCEPT !.out = enhance(a.enhancer, a.text, a.resp)]>>
  /\ UNCHANGED <<state, state_lock, recorder_vars, overlay_vars, config_vars,
                 main_vars, perf_log, handlers, callback_vars>>

\* load_enhancer_llm(args) returns
LoadEnhancerCall ==
  /\ calls[1].stage = "load_enhancer_llm"
  /\ calls[1].out = Pending
  /\ LET a == calls[1].arg
     IN calls' = <<[calls[1] EXCEPT
                     !.out = load_enhancer_llm(a.args, a.probe, a.client_ok)]>>
  /\ UNCHANGED <<state, state_lock, recorder_vars, overlay_vars, config_vars,
                 main_vars, perf_log, handlers, callback_vars>>

\* post_process_transcription(text, config_file_path) returns or raises
CorrectCall ==
  /\ calls[1].stage = "post_process_transcription"
  /\ calls[1].out = Pending
  /\ LET a == calls[1].arg
     IN calls' = <<[calls[1] EXCEPT
                     !.out = correct(a.text, a.corrections, a.grammar)]>>
  /\ UNCHANGED <<state, state_lock, recorder_vars, overlay_vars, config_vars,
                 main_vars, perf_log, handlers, callback_vars>>

\* TyniWispr.__init__: self.model, _ = load_whisper(args.model), and when
\* it returns, setup_key_handlers() registers the two hooks; when it raises,
\* the exception leaves __init__ and main, and the process ends
TyniWisprInitCall ==
  /\ calls[1].stage = "TyniWispr.__init__"
  /\ calls[1].out = Pending
  /\ main_pc = "init"
  /\ LET a == calls[1].arg
         out == load_whisper(a.cuda_available, a.gpu_load_ok, a.cpu_load_ok)
     IN /\ calls' = <<[calls[1] EXCEPT !.out = out]>>
        /\ hooked' = ~out.raised
        /\ main_pc' = IF out.raised THEN "exited" ELSE "start"
  /\ UNCHANGED <<state, state_lock, recorder_vars, overlay_vars, config_vars,
                 perf_log, handlers, callback_vars>>

\* load_corrections(config_file_path) returns or raises
LoadCorrectionsCall ==
  /\ calls[1].stage = "load_corrections"
  /\ calls[1].out = Pending
  /\ calls' = <<[calls[1] EXCEPT !.out = load_corrections(calls[1].arg.file)]>>
  /\ UNCHANGED <<state, state_lock, recorder_vars, overlay_vars, config_vars,
                 main_vars, perf_log, handlers, callback_vars>>

\* AudioRecorder.start_recording(): self.audio_buffer = [];
\* self.recording = True
StartRecordingCall ==
  /\ calls[1].stage = "AudioRecorder.start_recording"
  /\ calls[1].out = Pending
  /\ audio_buffer' = <<>>
  /\ recording' = TRUE
  /\ calls' = <<[calls[1] EXCEPT !.out = [raised |-> FALSE, text |-> <<>>]]>>
  /\ UNCHANGED <<state, state_lock, stream, overlay_vars, config_vars,
                 main_vars, perf_log, handlers, callback_vars>>

\* AudioRecorder.process_audio_buffer() returns: it reads self.audio_buffer
\* and assigns no attribute
ProcessAudioBufferCall ==
  /\ calls[1].stage = "AudioRecorder.process_audio_buffer"
  /\ calls[1].out = Pending
  /\ calls' = <<[calls[1] EXCEPT !.out = process_audio_buffer(audio_buffer)]>>
  /\ UNCHANGED <<state, state_lock, recorder_vars, overlay_vars, config_vars,
                 main_vars, perf_log, handlers, callback_vars>>

FunctionNext ==
  \/ EnhanceCall
  \/ LoadEnhancerCall
  \/ CorrectCall
  \/ LoadCorrectionsCall
  \/ StartRecordingCall
  \/ ProcessAudioBufferCall
  \/ TyniWisprInitCall
  \/ start_stream
  \/ start_stream_raises

FunctionSpec == FunctionInit /\ [][FunctionNext]_vars

\* =================================================================
\* Properties
\* =================================================================
\* the statements of _process_transcription
ProcessTranscriptionPcs ==
  {"pt_show", "pt_normalize", "pt_noaudio_hide", "pt_noaudio_wait",
   "pt_noaudio_idle", "pt_transcribe", "pt_notext_hide", "pt_notext_wait",
   "pt_notext_idle", "pt_enhance", "pt_correct", "pt_log", "pt_hide",
   "pt_hide_wait", "pt_empty_idle", "pt_write", "pt_idle"}

\* the handlers inside `with self.state_lock:`
Holders == {h \in Running : h.pc # "lock"}

InFlight == {h \in Running : h.pc \in ProcessTranscriptionPcs}

StageCalls(stage) == {i \in DOMAIN calls : calls[i].stage = stage}

\* the pipeline stages called so far, the performance log call left out
PipelineCalls == SelectSeq(calls, LAMBDA c : c.stage # "log")

IsPrefix(a, b) == Len(a) <= Len(b) /\ a = SubSeq(b, 1, Len(a))

\* cleanup has begun (or run was left by an exception): the main thread is
\* tearing the process down
ShuttingDown == main_pc \notin {"init", "start", "wait"}

\* the overlay is hidden, or cleanup's own overlay.hide() is under way: a
\* handler's hide() then finds is_showing cleared and does not wait
HiddenUnlessShutdown == OverlayHidden \/ ShuttingDown

\* C1: under every interleaving of toggle and cancel presses at most one
\* execution of _process_transcription is in flight, and so at most one
\* transcribe_audio call is active.
C1_AtMostOnePipeline ==
  /\ Cardinality(InFlight) <= 1
  /\ \A h \in InFlight : CopiesIn(h, handlers) = 1

\* C1 witness: the pipeline is at the transcription call while another
\* toggle press waits for the lock.
C1_Witness ==
  /\ \E h \in Running : h.pc = "pt_transcribe"
  /\ \E h \in Running : h.pc = "lock" /\ h.kind = "toggle"

\* C2: a toggle press delivered while the machine is TRANSCRIBING is
\* ignored: its handler changes nothing, in particular it never starts a
\* recording once the machine is back in IDLE.
C2_PressWhileTranscribingIgnored ==
  \A h \in Running :
    (h.kind = "toggle" /\ h.late) => h.pc \in {"lock", "dispatch", "release"}

\* C3: when the transcription call raises, the cycle is aborted with the
\* machine back in IDLE and the overlay hidden.
C3_TranscribeFailureReturnsToIdle ==
  \A h \in Running :
    (h.pc = "raise" /\ h.exc \in {"OutOfMemoryError", "Exception"})
      => (state = IDLE /\ OverlayHidden)

RanPipeline == calls # <<>> /\ calls[1].stage = "disarm" /\
               StageCalls("normalize") # {}

ExpectedStages ==
  IF enhancer.is_none
    THEN <<"disarm", "normalize", "transcribe", "correct", "inject">>
    ELSE <<"disarm", "normalize", "transcribe", "enhance", "correct", "inject">>

\* C8: in a cycle the stages run in the order disarm, normalize,
\* transcribe, enhance (only with an enhancer), correct, inject, each at
\* most once, and each stage receives the output of the stage before it.
C8_StagesInOrder ==
  (calls # <<>> /\ calls[1].stage = "disarm") =>
    /\ IsPrefix(Stages(PipelineCalls), ExpectedStages)
    /\ \A i \in 3..Len(PipelineCalls) :
         PipelineCalls[i].arg = PipelineCalls[i - 1].out

\* C8 witness: a cycle with an enhancer has run all six stages.
C8_Witness ==
  /\ ~enhancer.is_none
  /\ Stages(PipelineCalls) = ExpectedStages

\* C9: with every collaborator call returning and the process not ended, a
\* cycle that enters TRANSCRIBING reaches IDLE, and from IDLE a waiting
\* toggle press leads to a recording.
C9_PipelineReachesIdle ==
  /\ (\E h \in Running : h.pc = "stop_disarm")
       ~> (state = IDLE \/ ~Alive \/ \E h \in Running : h.pc = "raise")
  /\ (state = IDLE /\ \E h \in Running : h.kind = "toggle" /\ h.pc = "lock")
       ~> (state = RECORDING \/ ~Alive)

\* C9 witness: a cycle that typed its text is back in IDLE while the next
\* toggle press waits for the lock.
C9_Witness ==
  /\ state = IDLE
  /\ StageCalls("inject") # {}
  /\ \E h \in Running : h.kind = "toggle" /\ h.pc = "lock"

\* C10: the audio callback appends to the buffer only while the machine's
\* state is RECORDING.
C10_AppendOnlyWhileRecording ==
  [][Len(audio_buffer') > Len(audio_buffer) => state = RECORDING]_vars

\* C11: once stop_recording has cleared the armed flag the callback thread
\* appends nothing more: every append happens while the flag is set.
C11_NoAppendAfterDisarm ==
  [][Len(audio_buffer') > Len(audio_buffer) => recording]_vars

\* C12: the audio handed to the transcription of a cycle holds only chunks
\* captured since that cycle's arm, none of an earlier session.
C12_NoChunkOfEarlierSession ==
  \A i \in StageCalls("normalize") :
    \A j \in DOMAIN calls[i].arg : calls[i].arg[j].session = "fresh"

\* the applications of LLMEnhancer.enhance on its own
EnhanceCalls ==
  {i \in DOMAIN calls :
     calls[i].stage = "LLMEnhancer.enhance" /\ calls[i].out # Pending}

\* C13: LLMEnhancer.enhance never raises, whatever the instance, the text
\* and the backend's outcome, and returns the input unchanged when the
\* backend fails.
C13_EnhanceNeverRaises ==
  \A i \in EnhanceCalls :
    /\ ~calls[i].out.raised
    /\ ~calls[i].arg.resp.ok => calls[i].out.text = calls[i].arg.text

\* the length the sanity check of an instance compares: Azure's reply as
\* received, Ollama's reply with the blanks around it stripped
Measured(e, resp) ==
  IF e.azure_available THEN Len(resp.content) ELSE Len(strip(resp.content))

\* C14 (as the code has it): a reply is accepted only if the length the
\* backend measures, the stripped reply for Ollama and the reply as
\* received for Azure, is below 3 times the input's length; a non-blank
\* reply below that is returned stripped, one at or above it is dropped for
\* the input; for an input of length 10 a reply of 29 letters is accepted
\* and one of 30 or 35 letters is rejected.
C14_GuardMeasuresPerBackend ==
  \A i \in EnhanceCalls :
    LET e == calls[i].arg.enhancer
        txt == calls[i].arg.text
        resp == calls[i].arg.resp
        out == calls[i].out
    IN (~out.raised /\ resp.ok) =>
         /\ out.text # txt => Measured(e, resp) < 3 * Len(txt)
         /\ (strip(resp.content) # <<>> /\ Measured(e, resp) < 3 * Len(txt))
              => out.text = strip(resp.content)
         /\ Measured(e, resp) >= 3 * Len(txt) => out.text = txt
         /\ txt = Word(10) =>
              /\ resp.content = Word(29) => out.text = Word(29)
              /\ resp.content \in {Word(30), Word(35)} => out.text = txt

\* C14 witness: Ollama accepts a reply of 29 letters and a trailing blank,
\* 30 characters, for an input of length 10.
C14_Witness ==
  \E i \in EnhanceCalls :
    /\ calls[i].arg.enhancer.ollama_available
    /\ ~calls[i].arg.enhancer.azure_available
    /\ calls[i].arg.text = Word(10)
    /\ calls[i].arg.resp.ok
    /\ calls[i].arg.resp.content = Padded(0, 29, 1)
    /\ calls[i].out.text = Word(29)

\* C14 (as stated): for both backends a reply is accepted only if its
\* length is below 3 times the input's length, and a reply of length 30 to
\* an input of length 10 is rejected.
C14_GuardOnReplyLength ==
  \A i \in EnhanceCalls :
    LET txt == calls[i].arg.text
        resp == calls[i].arg.resp
        out == calls[i].out
    IN (~out.raised /\ resp.ok) =>
         /\ out.text # txt => Len(resp.content) < 3 * Len(txt)
         /\ (Len(txt) = 10 /\ Len(resp.content) = 30) => out.text = txt

\* C15: after the shutdown that follows an interrupt (cleanup has run and
\* the process is gone) the machine is IDLE, the recorder is disarmed, the
\* audio stream is closed and the overlay is hidden.
C15_ShutdownLeavesIdle ==
  (main_pc = "exited" /\ ~hooked) =>
    /\ state = IDLE
    /\ ~recording
    /\ stream = "closed"
    /\ OverlayHidden

\* C16: however run is left, by an interrupt or by a failure to start the
\* audio stream, the key handlers are unhooked, the overlay is hidden and
\* no audio stream is left open.
C16_CleanupOnEveryExit ==
  main_pc = "exited" =>
    /\ ~hooked
    /\ OverlayHidden
    /\ stream \in {"none", "closed"}

\* the statements of _process_transcription between its overlay.show and
\* its overlay.hide
WhileTranscribing ==
  {"pt_normalize", "pt_transcribe", "pt_enhance", "pt_correct", "pt_log",
   "pt_hide", "pt_noaudio_hide", "pt_notext_hide"}

\* C17: while the pipeline runs, until it hides the overlay, an overlay on
\* screen is in mode 'transcribing'; after a recording has started an
\* overlay on screen is in mode 'recording'.
C17_OverlayModeFollowsState ==
  \A h \in Holders :
    /\ (h.pc \in WhileTranscribing /\ is_showing)
         => current_mode = "transcribing"
    /\ (h.pc = "release" /\ state = RECORDING /\ is_showing)
         => current_mode = "recording"

CancelHolders == {h \in Holders : h.kind = "cancel"}

\* C19: a cancel handler acts only on a recording. While a pipeline is in
\* flight every cancel press waits for the lock, so the pipeline is not
\* touched; a cancel handler that finds a state other than RECORDING ends
\* and leaves state, armed flag, buffer and overlay as they are.
C19_CancelOnlyInRecording ==
  /\ [](\A h \in Running :
          (h.kind = "cancel" /\ InFlight # {}) => h.pc = "lock")
  /\ [][\A h \in CancelHolders :
          (h.pc = "dispatch" /\ state # RECORDING /\ h \notin Running') =>
            /\ [h EXCEPT !.pc = "release"] \in Running'
            /\ UNCHANGED <<state, recording, audio_buffer, overlay_vars,
                           calls>>]_vars

\* C19 witness: a cancel press made while TRANSCRIBING has waited for the
\* pipeline to end and its handler ends having called nothing.
C19_Witness ==
  \E h \in CancelHolders :
    /\ h.late
    /\ h.pc = "release"
    /\ calls = <<>>
    /\ state = IDLE

\* C20: start_recording on an armed recorder is a no-op: the buffer and the
\* armed flag are as before the call.
C20_ArmIsIdempotent ==
  \A i \in DOMAIN calls :
    (/\ calls[i].stage = "AudioRecorder.start_recording"
     /\ calls[i].out # Pending
     /\ calls[i].arg.recording)
      => (audio_buffer = calls[i].arg.audio_buffer /\ recording)

\* the applications of load_enhancer_llm that have returned
LoadCalls ==
  {i \in DOMAIN calls :
     calls[i].stage = "load_enhancer_llm" /\ calls[i].out # Pending}

C22_OllamaTakesPrecedence ==
  \A i \in LoadCalls :
    LET a == calls[i].arg
        out == calls[i].out
    IN /\ ~(out.azure_available /\ out.ollama_available)
       /\ (/\ a.args.llm_enhance_ollama
           /\ a.args.llm_enhance_azure_openai
           /\ a.probe = "listed"
           /\ a.client_ok) =>
            /\ ~out.is_none
            /\ \A txt \in Texts, resp \in Responses :
                 enhance(out, txt, resp) =
                   [raised |-> FALSE, text |-> enhance_ollama(out, txt, resp)]
       /\ out.azure_available =>
            /\ ~a.args.llm_enhance_ollama \/ a.probe # "listed"
            /\ \A txt \in Texts, resp \in Responses :
                 enhance(out, txt, resp) =
                   [raised |-> FALSE,
                    text |-> enhance_azure_openai(out, txt, resp)]

\* C22 witness: both flags were set, both backends were available, and
\* load_enhancer_llm has returned the Ollama enhancer.
C22_Witness ==
  \E i \in LoadCalls :
    /\ calls[i].arg.args.llm_enhance_ollama
    /\ calls[i].arg.args.llm_enhance_azure_openai
    /\ calls[i].arg.probe = "listed"
    /\ calls[i].arg.client_ok
    /\ calls[i].out.ollama_available

\* the applications of post_process_transcription that have returned or
\* raised
CorrectCalls ==
  {i \in DOMAIN calls :
     calls[i].stage = "post_process_transcription" /\ calls[i].out # Pending}

\* the length of the first word of text, or of the blanks it begins with
RunLength(text) ==
  CHOOSE n \in 1..Len(text) :
    /\ \A k \in 1..n : IsWordChar(text[k]) = IsWordChar(text[1])
    /\ n = Len(text) \/ IsWordChar(text[n + 1]) # IsWordChar(text[1])

\* text cut into its words and the runs of blanks between them
RECURSIVE Tokens(_)
Tokens(text) ==
  IF text = <<>>
    THEN <<>>
    ELSE <<SubSeq(text, 1, RunLength(text))>>
           \o Tokens(SubSeq(text, RunLength(text) + 1, Len(text)))

RECURSIVE Flatten(_)
Flatten(tokens) ==
  IF tokens = <<>> THEN <<>> ELSE Head(tokens) \o Flatten(Tail(tokens))

\* text with every word that is the key of the entry replaced
WordsReplaced(entry, text) ==
  Flatten([k \in DOMAIN Tokens(text) |->
             IF Tokens(text)[k] = entry.incorrect
               THEN entry.correct
               ELSE Tokens(text)[k]])

\* the entries of a table applied as whole-word replacements, in its order
RECURSIVE AllWordsReplaced(_, _)
AllWordsReplaced(corrections, text) ==
  IF corrections = <<>> THEN text
  ELSE AllWordsReplaced(Tail(corrections),
                        WordsReplaced(Head(corrections), text))

\* C23: a key of the corrections table is replaced only where it stands as
\* a whole word, never inside a longer word: the result is the text with
\* the words equal to a key replaced; under {Christy -> Christie} the text
\* 'Christy Christyson' becomes 'Christie Christyson'.
C23_CorrectionsReplaceWholeWords ==
  \A i \in CorrectCalls :
    LET a == calls[i].arg
        out == calls[i].out
    IN /\ out = post_process_transcription(
                  a.text,
                  language_tool(AllWordsReplaced(a.corrections, strip(a.text)),
                                a.grammar))
       /\ a = ChristyApplication.arg =>
            out.text = Christie \o <<" ">> \o Christy \o <<"s", "o", "n">>

\* C23 witness: 'Christy Christyson' has been corrected under
\* {Christy -> Christie}.
C23_Witness ==
  \E i \in CorrectCalls :
    /\ calls[i].arg = ChristyApplication.arg
    /\ ~calls[i].out.raised

\* key occurs in text
Occurs(key, text) ==
  \E p \in 1..Len(text) : MatchesAt_Substring(key, text, p)

\* no key of the table occurs in another key, nor in a replacement
NoOverlappingKeys(corrections) ==
  \A i, j \in DOMAIN corrections :
    /\ i # j => ~Occurs(corrections[i].incorrect, corrections[j].incorrect)
    /\ ~Occurs(corrections[i].incorrect, corrections[j].correct)

\* C24: for a table with no overlapping keys, correcting a corrected text
\* again (grammar pass as identity) returns it unchanged. Stated for the
\* applications in which neither correction raises.
C24_CorrectIsIdempotent ==
  \A i \in CorrectCalls :
    LET a == calls[i].arg
        out == calls[i].out
        again == correct(out.text, a.corrections, "unchanged")
    IN (/\ a.grammar = "unchanged"
        /\ NoOverlappingKeys(a.corrections)
        /\ ~out.raised
        /\ ~again.raised) =>
         again = out

\* C25: post_process_transcription returns a text without raising for
\* every text, table and grammar outcome, and returns the empty text for
\* an empty or blank input.
C25_CorrectNeverRaises ==
  \A i \in CorrectCalls :
    /\ ~calls[i].out.raised
    /\ strip(calls[i].arg.text) = <<>> => calls[i].out.text = <<>>

\* the orders in which a file can list the entries of a table
Orderings(corrections) ==
  {[k \in DOMAIN corrections |-> corrections[f[k]]] :
     f \in Permutations(DOMAIN corrections)}

\* C26: the corrected text is the same for every order in which the table
\* lists its entries. Stated for the applications in which the correction
\* raises under neither order.
C26_OrderOfEntriesIrrelevant ==
  \A i \in CorrectCalls :
    LET a == calls[i].arg
    IN \A other \in Orderings(a.corrections) :
         (~calls[i].out.raised /\ ~correct(a.text, other, a.grammar).raised) =>
           correct(a.text, other, a.grammar) = calls[i].out

\* the applications of process_audio_buffer that have returned
ProcessCalls ==
  {i \in DOMAIN calls :
     /\ calls[i].stage = "AudioRecorder.process_audio_buffer"
     /\ calls[i].out # Pending}

\* the number of samples in the first n chunks of buf
RECURSIVE SamplesIn(_, _)
SamplesIn(buf, n) ==
  IF n = 0 THEN 0 ELSE SamplesIn(buf, n - 1) + Len(buf[n].samples)

\* C27: for a buffer of at least one chunk of int16 samples,
\* process_audio_buffer returns the samples of all chunks in insertion
\* order, each equal to raw / 32768 and so within [-1.0, 1.0], and the
\* duration total samples / sample rate.
C27_NormalisedSamplesAndDuration ==
  \A i \in ProcessCalls :
    LET buf == calls[i].arg.audio_buffer
        out == calls[i].out
    IN buf # <<>> =>
         /\ ~out.is_none
         /\ Len(out.mono) = SamplesIn(buf, Len(buf))
         /\ \A j \in DOMAIN buf :
              \A k \in DOMAIN buf[j].samples :
                LET x == out.mono[SamplesIn(buf, j - 1) + k]
                IN /\ x = Ratio(buf[j].samples[k], 32768)
                   /\ -x.den <= x.num
                   /\ x.num <= x.den
         /\ out.duration = Ratio(SamplesIn(buf, Len(buf)), DEFAULT_SAMPLERATE)

\* C27 witness: a buffer of two chunks, the second of two samples, holding
\* the lowest and the highest int16 value, has been normalised.
C27_Witness ==
  \E i \in ProcessCalls :
    LET buf == calls[i].arg.audio_buffer
    IN /\ Len(buf) = 2
       /\ Len(buf[2].samples) = 2
       /\ buf[1].samples[1] = -32768
       /\ buf[2].samples = <<32767, -32768>>
       /\ Len(calls[i].out.mono) > 2

\* C28: on a buffer with no chunk process_audio_buffer returns (None, 0)
\* without raising and leaves the buffer and the armed flag as they were.
C28_EmptyBufferGivesSentinel ==
  \A i \in ProcessCalls :
    calls[i].arg.audio_buffer = <<>> =>
      /\ calls[i].out = None
      /\ calls[i].out.duration.num = 0
      /\ audio_buffer = calls[i].arg.audio_buffer
      /\ recording = calls[i].arg.recording

\* C28 witness: process_audio_buffer has returned on an armed recorder
\* whose buffer is empty.
C28_Witness ==
  \E i \in ProcessCalls :
    /\ calls[i].arg.audio_buffer = <<>>
    /\ calls[i].arg.recording
    /\ calls[i].out.is_none

C30_TranscribingOnlyUnderLock ==
  (Holders = {} /\ ~state_lock) => state \in {IDLE, RECORDING}

\* C31: whenever no key handler is inside its `with self.state_lock:` block,
\* the recorder's armed flag is set exactly when the state is RECORDING.
C31_ArmedIffRecording ==
  Holders = {} => (recording <=> state = RECORDING)

\* C31 witness: a recording is under way and the handler that started it has
\* ended.
C31_Witness ==
  /\ Holders = {}
  /\ state = RECORDING
  /\ recording

\* C32: the key handlers cannot deadlock. At most one handler is inside the
\* `with` block, so the lock is never taken by code that holds it; the lock
\* is held exactly while a handler is inside the block, so every exit, an
\* exception included, releases it; the state is written only by the handler
\* holding the lock; and a held lock is released again unless the process
\* ends first.
C32_HandlersCannotDeadlock ==
  /\ [](/\ Cardinality(Holders) <= 1
        /\ \A h \in Holders : CopiesIn(h, handlers) = 1
        /\ state_lock <=> Holders # {})
  /\ [][state' # state =>
         state_lock /\ \E h \in Holders : CopiesIn(h, handlers') = 0]_vars
  /\ state_lock ~> (~state_lock \/ ~Alive)

\* C32 witness: a handler left the block by an exception of the pipeline
\* (the state is still TRANSCRIBING) and the lock is free for the press
\* that waits for it.
C32_Witness ==
  /\ state = TRANSCRIBING
  /\ ~state_lock
  /\ Holders = {}
  /\ \E h \in Running : h.pc = "lock"

\* the step is the call pyautogui.write(text + ' ')
Injects ==
  /\ Len(calls') = Len(calls) + 1
  /\ calls'[Len(calls')].stage = "inject"

\* C33: the overlay is hidden before the text is typed: when the final text
\* is injected, is_showing is false and the overlay thread has terminated
\* (a thread past its last statement is taken as terminated).
C33_OverlayHiddenBeforeTyping ==
  [][Injects => OverlayHidden]_vars

\* the number of overlay threads inside `while self.is_showing:`
Looping == (IF thread = "loop" THEN 1 ELSE 0) + CopiesIn("loop", orphans)

\* the step is the finally block of an overlay thread that a later show()
\* has replaced
ReplacedThreadCleansUp ==
  CopiesIn("finally", orphans') < CopiesIn("finally", orphans)

\* the handlers just back from a call of overlay.hide()
BackFromHide ==
  {h \in Holders : h.pc \in {"pt_write", "pt_empty_idle", "pt_noaudio_idle",
                             "pt_notext_idle"}}

\* C34: in every interleaving of show(), hide() and the overlay threads at
\* most one overlay thread is inside its display loop, hide() returns only
\* with is_showing false and the overlay thread finished, and the cleanup of
\* an overlay thread never clears the is_showing flag a later show() has set.
C34_OverlayInterleavings ==
  /\ [](Looping <= 1)
  /\ [](BackFromHide # {} => OverlayHidden)
  /\ [][ReplacedThreadCleansUp => ~is_showing]_vars

\* C35: the enhancer load_enhancer_llm hands to the state machine, if any,
\* has exactly one backend available, and keeps it for the whole run, so
\* no call of enhance from the pipeline raises the RuntimeError of the
\* no-backend branch.
C35_ExactlyOneBackend ==
  /\ [](~enhancer.is_none =>
          enhancer.azure_available # enhancer.ollama_available)
  /\ [](\A h \in Running : h.exc # "RuntimeError")
  /\ [][enhancer' = enhancer]_vars

\* C35 witness: the pipeline has called enhance on a loaded enhancer.
C35_Witness ==
  /\ ~enhancer.is_none
  /\ StageCalls("enhance") # {}

\* C36: for a non-empty input, enhance with either backend never returns an
\* empty or blank text: it returns the input itself, or the non-empty
\* stripped reply, whose length is below 3 times the input's length.
C36_EnhanceNeverReturnsBlank ==
  \A i \in EnhanceCalls :
    LET txt == calls[i].arg.text
        resp == calls[i].arg.resp
        out == calls[i].out
    IN (txt # <<>> /\ ~out.raised) =>
         /\ strip(out.text) # <<>>
         /\ \/ out.text = txt
            \/ /\ resp.ok
               /\ out.text = strip(resp.content)
               /\ Len(out.text) < 3 * Len(txt)

\* C37: when the grammar pass fails, post_process_transcription swallows the
\* failure and returns the text the substitutions left, its first character
\* in upper case; nothing is raised to the caller.
C37_GrammarFailureSwallowed ==
  \A i \in CorrectCalls :
    LET a == calls[i].arg
        out == calls[i].out
        substituted == apply_corrections(a.corrections, strip(a.text))
    IN (a.grammar = "failed" /\ strip(a.text) # <<>>) =>
         /\ ~out.raised
         /\ out.text = <<upper(Head(substituted))>> \o Tail(substituted)

\* the applications of load_corrections on its own
LoadCorrectionsCalls ==
  {i \in DOMAIN calls :
     calls[i].stage = "load_corrections" /\ calls[i].out # Pending}

\* C38: load_corrections never raises and always returns a table: the
\* file's content when the file holds a JSON object, the default table when
\* the file is absent, unparsable, unreadable or holds another JSON value;
\* it writes the file only when it was absent, and leaves an existing file
\* as it is.
C38_LoadCorrectionsNeverRaises ==
  \A i \in LoadCorrectionsCalls :
    LET file == calls[i].arg.file
        out == calls[i].out
    IN /\ ~out.raised
       /\ out.corrections =
            (IF file.kind = "object" THEN file.content ELSE default_corrections)
       /\ file.kind # "absent" => out.file = file
       /\ out.file # file =>
            /\ file.kind = "absent"
            /\ out.file.kind = "object"
            /\ out.file.content = default_corrections

\* C38 witness: load_corrections has returned the default table for a file
\* that cannot be read, and has left the file alone.
C38_Witness ==
  \E i \in LoadCorrectionsCalls :
    /\ calls[i].arg.file.kind = "unreadable"
    /\ calls[i].arg.file.writable
    /\ calls[i].out.corrections = default_corrections
    /\ calls[i].out.file = calls[i].arg.file

\* the constructions of the program
InitCalls ==
  {i \in DOMAIN calls :
     calls[i].stage = "TyniWispr.__init__" /\ calls[i].out # Pending}

\* C39: loading the speech model falls back from GPU to CPU: when a GPU is
\* available and the load on it fails, the load is tried once more on the
\* CPU and its result returned. Startup fails exactly when the CPU load
\* fails, tried directly with no GPU or as the fallback, and then no key
\* handler is registered and no stream is started.
C39_GpuFallsBackToCpu ==
  \A i \in InitCalls :
    LET a == calls[i].arg
        out == calls[i].out
    IN /\ (a.cuda_available /\ ~a.gpu_load_ok) =>
            /\ out.loads = <<"cuda", "cpu">>
            /\ a.cpu_load_ok => (~out.raised /\ out.device = "cpu")
       /\ out.raised <=>
            (out.loads[Len(out.loads)] = "cpu" /\ ~a.cpu_load_ok)
       /\ out.raised => (~hooked /\ stream = "none" /\ ~Alive)
       /\ ~out.raised => hooked

\* C39 witness: the GPU load failed, the CPU load succeeded, and the
\* program went on to register its hooks and start the stream.
C39_Witness ==
  \E i \in InitCalls :
    /\ calls[i].arg.cuda_available
    /\ ~calls[i].arg.gpu_load_ok
    /\ calls[i].out.device = "cpu"
    /\ hooked
    /\ stream = "active"

====
